---- MODULE Spec2Model ----
(***************************************************************************)
(* A model of automated_export.py: the batch loop of main, the XML table   *)
(* extractor xml_to_df, the cyclist/team joiner cyclist_and_team_data and  *)
(* the age deriver calculate_age.                                          *)
(*                                                                         *)
(* Encoding of Python values.  A text (str) is a tuple of one-character    *)
(* strings, so that int() and strptime() can be modelled character by      *)
(* character; "" is << >>.  Python's None, where a text may stand, is the  *)
(* tuple None below, which no text equals.  Element and attribute names    *)
(* are TLA+ strings.                                                       *)
(***************************************************************************)
EXTENDS Integers, Sequences, FiniteSets, TLC

VARIABLES
    pc,         \* position of the running function
    cdb_files,  \* main: the list built by the directory scan
    idx,        \* main: 1-based position of the loop in cdb_files
    xml_files,  \* file system: the stems whose .xml file exists
    csv_files,  \* file system: the stems whose .csv file exists
    attempted,  \* main: the stems handed to export_to_xml, in order
    status,     \* main: the status line printed for each stem
    args,       \* the arguments of the function under study
    ret         \* what it returned (or the error it raised)

vars == <<pc, cdb_files, idx, xml_files, csv_files, attempted, status, args, ret>>

mainVars == <<cdb_files, idx, xml_files, csv_files, attempted, status>>

(***************************************************************************)
(* Bounds of the model.                                                    *)
(***************************************************************************)
MaxFiles == 3    \* .cdb files in the directory
MaxTables == 3   \* Table elements in a document (table selection)
MaxCols == 2     \* Column children of a table (extraction)
MaxCells == 2    \* Cell children of a column
MaxRows == 2     \* rows of the cyclist and team tables (join)
YearSpan == 1    \* birth years 1999..1999+YearSpan, current years 2023..2023+YearSpan
MaxMonth == 13   \* month numbers 0..MaxMonth are written into birthdates
MaxDay == 32     \* day numbers 0..MaxDay are written into birthdates

(***************************************************************************)
(* Python values                                                           *)
(***************************************************************************)
None == <<"None">>

Digits == <<"0", "1", "2", "3", "4", "5", "6", "7", "8", "9">>

IsDigit(c) == \E k \in 1..10 : Digits[k] = c

DigitVal(c) == (CHOOSE k \in 1..10 : Digits[k] = c) - 1

IsSpace(c) == c = " "

Max(a, b) == IF a >= b THEN a ELSE b

\* str.strip(): leading and trailing white space removed
RECURSIVE LStrip(_)
LStrip(s) == IF s # << >> /\ IsSpace(Head(s)) THEN LStrip(Tail(s)) ELSE s

RECURSIVE RStrip(_)
RStrip(s) ==
    IF s # << >> /\ IsSpace(s[Len(s)]) THEN RStrip(SubSeq(s, 1, Len(s) - 1)) ELSE s

RECURSIVE DigitsValue(_, _)
DigitsValue(s, acc) ==
    IF s = << >> THEN acc ELSE DigitsValue(Tail(s), acc * 10 + DigitVal(Head(s)))

AllDigits(s) == \A k \in 1..Len(s) : IsDigit(s[k])

\* int() on a text without surrounding white space: an optional sign, then
\* one or more decimal digits; anything else is a ValueError (ok = FALSE)
IntOfStripped(t) ==
    LET signed == t # << >> /\ Head(t) \in {"+", "-"}
        body == IF signed THEN Tail(t) ELSE t
    IN  IF body # << >> /\ AllDigits(body)
        THEN [ok |-> TRUE,
              val |-> IF signed /\ Head(t) = "-"
                      THEN 0 - DigitsValue(body, 0) ELSE DigitsValue(body, 0)]
        ELSE [ok |-> FALSE, val |-> 0]

\* int(text): surrounding white space is ignored
PyInt(s) == IntOfStripped(RStrip(LStrip(s)))

\* str(int): decimal digits without leading zeros, "-" before a negative
RECURSIVE NatStr(_)
NatStr(n) == IF n < 10 THEN <<Digits[n + 1]>> ELSE NatStr(n \div 10) \o <<Digits[(n % 10) + 1]>>

PyStr(n) == IF n < 0 THEN <<"-">> \o NatStr(0 - n) ELSE NatStr(n)

(***************************************************************************)
(* datetime                                                                *)
(***************************************************************************)
IsLeap(y) == (y % 4 = 0 /\ y % 100 # 0) \/ y % 400 = 0

DaysInMonth(y, m) ==
    IF m = 2 THEN (IF IsLeap(y) THEN 29 ELSE 28)
    ELSE IF m \in {4, 6, 9, 11} THEN 30 ELSE 31

\* what the datetime constructor accepts
ValidDate(y, m, d) == y >= 1 /\ y <= 9999 /\ m \in 1..12 /\ d >= 1 /\ d <= DaysInMonth(y, m)

CharAt(s, p) == IF p >= 1 /\ p <= Len(s) THEN s[p] ELSE ""

\* The alternatives of the directive %m, (1[0-2]|0[1-9]|[1-9]), that match
\* at position p, as the lengths they consume, in the order the regular
\* expression tries them.
MonthAlts(s, p) ==
    LET a == CharAt(s, p)
        b == CharAt(s, p + 1)
    IN  (IF (a = "1" /\ b \in {"0", "1", "2"}) \/ (a = "0" /\ IsDigit(b) /\ b # "0")
         THEN <<2>> ELSE << >>)
        \o (IF IsDigit(a) /\ a # "0" THEN <<1>> ELSE << >>)

\* The same for %d, (3[0-1]|[1-2]\d|0[1-9]|[1-9]| [1-9]).
DayAlts(s, p) ==
    LET a == CharAt(s, p)
        b == CharAt(s, p + 1)
    IN  (IF (a = "3" /\ b \in {"0", "1"})
            \/ (a \in {"1", "2"} /\ IsDigit(b))
            \/ (a = "0" /\ IsDigit(b) /\ b # "0")
         THEN <<2>> ELSE << >>)
        \o (IF IsDigit(a) /\ a # "0" THEN <<1>> ELSE << >>)
        \o (IF a = " " /\ IsDigit(b) /\ b # "0" THEN <<2>> ELSE << >>)

NoDate == [ok |-> FALSE, year |-> 0, month |-> 0, day |-> 0]

\* the date of the matched fields, if the calendar has it
DateOf(y, m, d) ==
    IF ValidDate(y, m, d) THEN [ok |-> TRUE, year |-> y, month |-> m, day |-> d] ELSE NoDate

\* the match that gives ml characters to the month and dl to the day: text
\* left over after it is a ValueError
MatchedDate(s, ml, dl) ==
    IF 4 + ml + dl # Len(s) THEN NoDate
    ELSE DateOf(DigitsValue(SubSeq(s, 1, 4), 0),
                DigitsValue(SubSeq(s, 5, 4 + ml), 0),
                PyInt(SubSeq(s, 5 + ml, 4 + ml + dl)).val)

\* the first month alternative, among mAlts, after which a day matches,
\* with the first day alternative there
FirstMatch(s, mAlts) ==
    IF mAlts = << >> THEN NoDate
    ELSE IF DayAlts(s, 5 + Head(mAlts)) # << >>
    THEN MatchedDate(s, Head(mAlts), Head(DayAlts(s, 5 + Head(mAlts))))
    ELSE IF Len(mAlts) = 2 /\ DayAlts(s, 5 + mAlts[2]) # << >>
    THEN MatchedDate(s, mAlts[2], Head(DayAlts(s, 5 + mAlts[2])))
    ELSE NoDate

\* datetime.strptime(s, '%Y%m%d'): the format's regular expression
\* (\d\d\d\d)(month)(day) is matched at the start of s, the first match in
\* the expression's backtracking order is taken, and text left over after
\* it, or a date the calendar does not have, is a ValueError.
Strptime(s) ==
    IF Len(s) >= 4 /\ AllDigits(SubSeq(s, 1, 4)) THEN FirstMatch(s, MonthAlts(s, 5)) ELSE NoDate

\* (a1, a2) < (b1, b2) on Python tuples
TupleLess(a1, a2, b1, b2) == a1 < b1 \/ (a1 = b1 /\ a2 < b2)

(***************************************************************************)
(* calculate_age                                                           *)
(***************************************************************************)
AgeNone == [isnull |-> TRUE, value |-> 0]

AgeInt(n) == [isnull |-> FALSE, value |-> n]

AgeOn_monthonly(b, today) ==
    IF ~b.ok THEN AgeNone
    ELSE AgeInt(today.year - b.year - (IF today.month < b.month THEN 1 ELSE 0))

\* the age on the day today of someone born on b; None when strptime raised
AgeOn(b, today) ==
    IF ~b.ok THEN AgeNone
    ELSE AgeInt(today.year - b.year
                - (IF TupleLess(today.month, today.day, b.month, b.day) THEN 1 ELSE 0))

\* the try block, n being int(birthdate); None when int raised
AgeOfInt(n, today) == IF ~n.ok THEN AgeNone ELSE AgeOn(Strptime(PyStr(n.val)), today)

\* today is datetime.now(), an input of the model
calculate_age(birthdate, today) ==
    IF birthdate = None THEN AgeNone ELSE AgeOfInt(PyInt(birthdate), today)

(***************************************************************************)
(* The specification of calculate_age: a birthdate and a current date are  *)
(* drawn, and the function is called once.                                 *)
(***************************************************************************)
Pad2(n) == IF n < 10 THEN <<"0">> \o NatStr(n) ELSE NatStr(n)

BirthYears == 1999..(1999 + YearSpan)

\* year, month and day written padded (YYYYMMDD) or without the padding zeros
WrittenDates ==
    {NatStr(y) \o (IF pm THEN Pad2(m) ELSE NatStr(m)) \o (IF pd THEN Pad2(d) ELSE NatStr(d)) :
        y \in BirthYears, m \in 0..MaxMonth, d \in 0..MaxDay, pm \in BOOLEAN, pd \in BOOLEAN}

OtherBirthdates ==
    {None, << >>, <<"x">>, <<"1", "9", "9", "5", "x">>,
     <<"-", "1", "9", "9", "5", "0", "3", "1", "7">>,
     <<" ", "2", "0", "0", "0", "0", "2", "2", "9", " ">>,
     <<"0", "9", "9", "5", "0", "3", "1", "7">>,
     <<"1", "9", "9", "5">>, <<"0">>}

Birthdates == WrittenDates \cup OtherBirthdates

Todays ==
    {[year |-> y, month |-> md[1], day |-> md[2]] :
        y \in 2023..(2023 + YearSpan),
        md \in {<<1, 1>>, <<2, 28>>, <<2, 29>>, <<3, 1>>, <<6, 15>>, <<12, 31>>}}

\* main is not running
mainIdle ==
    /\ cdb_files = << >>
    /\ idx = 0
    /\ xml_files = {}
    /\ csv_files = {}
    /\ attempted = << >>
    /\ status = << >>

AgeInit ==
    /\ pc = "call"
    /\ mainIdle
    /\ args \in {[birthdate |-> b, today |-> t] :
                    b \in Birthdates, t \in {x \in Todays : ValidDate(x.year, x.month, x.day)}}
    /\ ret = AgeNone

AgeCall ==
    /\ pc = "call"
    /\ pc' = "return"
    /\ ret' = calculate_age(args.birthdate, args.today)
    /\ UNCHANGED <<args, mainVars>>

AgeNext == AgeCall

SpecAge == AgeInit /\ [][AgeNext]_vars

(***************************************************************************)
(* XML documents (xml.etree.ElementTree).  An element is a record of its   *)
(* attributes (a function from the attribute names it carries) and its     *)
(* children.  A file holds the Table elements below the root, in document  *)
(* order, or is malformed, or is missing.                                  *)
(***************************************************************************)
NoAttrs == [k \in {} |-> ""]

HasAttr(e, k) == k \in DOMAIN e.attrs

\* e.get(k) is truthy: the attribute is there and not empty
AttrTruthy(e, k, empty) == HasAttr(e, k) /\ e.attrs[k] # empty

XmlFile(tables) == [kind |-> "xml", tables |-> tables]

MalformedFile == [kind |-> "malformed", tables |-> << >>]

MissingFile == [kind |-> "missing", tables |-> << >>]

(***************************************************************************)
(* pandas.DataFrame: the column labels and the rows, each row a tuple of   *)
(* values in column order.                                                 *)
(***************************************************************************)
EmptyDataFrame == [columns |-> << >>, rows |-> << >>]

Returned(df) == [ok |-> TRUE, err |-> "", df |-> df]

Raised(e) == [ok |-> FALSE, err |-> e, df |-> EmptyDataFrame]

\* pd.DataFrame(rows, columns=columns): a row of another width is refused
DataFrame(rows, columns) ==
    IF \A r \in 1..Len(rows) : Len(rows[r]) = Len(columns)
    THEN Returned([columns |-> columns, rows |-> rows])
    ELSE Raised("ValueError: columns passed")

(***************************************************************************)
(* xml_to_df                                                               *)
(***************************************************************************)
\* root.find(".//Table[@TableName='name']"): position of the first match, 0 if none
FindNamed(tables, name) ==
    LET hits == {k \in 1..Len(tables) :
                    HasAttr(tables[k], "TableName") /\ tables[k].attrs.TableName = name}
    IN  IF hits = {} THEN 0 ELSE CHOOSE k \in hits : \A j \in hits : k <= j

\* The loop over root.findall('.//Table') from position k on: the position
\* of the first table with NumRows > 0, 0 when the loop ends without one,
\* -1 when int(num_rows) raises on the way.
RECURSIVE FirstWithData(_, _)
FirstWithData(tables, k) ==
    IF k > Len(tables) THEN 0
    ELSE IF ~AttrTruthy(tables[k], "NumRows", << >>) THEN FirstWithData(tables, k + 1)
    ELSE IF ~PyInt(tables[k].attrs.NumRows).ok THEN -1
    ELSE IF PyInt(tables[k].attrs.NumRows).val > 0 THEN k
    ELSE FirstWithData(tables, k + 1)

keep_any_named(col) == HasAttr(col, "ColumnName")

\* if column_name:
keep(col) == AttrTruthy(col, "ColumnName", "")

\* the Column children that contribute a label and a list of cells
Retained(table) == SelectSeq(table.cols, keep)

RECURSIVE MaxLength(_)
MaxLength(data) ==
    IF data = << >> THEN 0 ELSE Max(Len(Head(data)), MaxLength(Tail(data)))

RECURSIVE MinLength(_)
MinLength(data) ==
    IF Len(data) = 1 THEN Len(data[1])
    ELSE LET m == MinLength(Tail(data))
         IN  IF Len(Head(data)) <= m THEN Len(Head(data)) ELSE m

pad_nothing(col_data, max_length) == col_data

\* col_data + [None] * (max_length - len(col_data))
pad(col_data, max_length) ==
    col_data \o [k \in 1..(max_length - Len(col_data)) |-> None]

\* list(map(list, zip(*padded_data))): zip stops at the shortest column
transpose(padded_data) ==
    [i \in 1..MinLength(padded_data) |->
        [c \in 1..Len(padded_data) |-> padded_data[c][i]]]

\* the frame built from the labels and the cell lists of the retained columns
Frame(columns, data) ==
    IF data # << >>
    THEN DataFrame(transpose([c \in 1..Len(data) |-> pad(data[c], MaxLength(data))]), columns)
    ELSE Returned(EmptyDataFrame)

Extract(cols) ==
    Frame([c \in 1..Len(cols) |-> cols[c].attrs.ColumnName],
          [c \in 1..Len(cols) |-> cols[c].cells])

\* the part of xml_to_df after the selection: at is the position of the
\* selected table, 0 when there is none, -1 when int(num_rows) raised
FromSelection(tables, table_name, at) ==
    IF at = -1 THEN Raised("ValueError: invalid literal for int()")
    ELSE IF at = 0
    THEN (IF table_name # "" THEN Raised("ValueError: table not found")
          ELSE Raised("ValueError: no table with data"))
    ELSE Extract(Retained(tables[at]))

\* table_name = "" stands for a call without a table name
xml_to_df(file, table_name) ==
    IF file.kind = "missing" THEN Raised("FileNotFoundError")
    ELSE IF file.kind = "malformed" THEN Raised("ParseError")
    ELSE FromSelection(file.tables, table_name,
                       IF table_name # "" THEN FindNamed(file.tables, table_name)
                       ELSE FirstWithData(file.tables, 1))

(***************************************************************************)
(* The specification of xml_to_df: a document and a table name are drawn,  *)
(* and the function is called once.                                        *)
(***************************************************************************)
\* the sequences over S of length at most n
SeqsUpTo(S, n) == UNION {[1..k -> S] : k \in 0..n}

CellTexts == {None, <<"u">>}

ColumnAttrs == {NoAttrs, [ColumnName |-> ""], [ColumnName |-> "a"], [ColumnName |-> "b"]}

Columns == {[attrs |-> a, cells |-> c] : a \in ColumnAttrs, c \in SeqsUpTo(CellTexts, MaxCells)}

\* a document with one table, for the extraction of its columns
ExtractDoc(cols) ==
    XmlFile(<<[attrs |-> [TableName |-> "T", NumRows |-> <<"5">>], cols |-> cols]>>)

NumRowsAttrs ==
    {NoAttrs, [NumRows |-> << >>], [NumRows |-> <<"0">>], [NumRows |-> <<"-", "1">>],
     [NumRows |-> <<"5">>], [NumRows |-> <<"x">>]}

TableAttrs == NumRowsAttrs \cup {a @@ [TableName |-> "T"] : a \in {NoAttrs, [NumRows |-> <<"5">>]}}

\* a document with several tables, for the selection of the table: the
\* k-th table holds its position, so that the result tells which table
\* was selected
SelectDoc(attrSeq) ==
    XmlFile([k \in 1..Len(attrSeq) |->
                [attrs |-> attrSeq[k],
                 cols |-> <<[attrs |-> [ColumnName |-> "position"], cells |-> <<NatStr(k)>>]>>]])

XmlInit ==
    /\ pc = "call"
    /\ mainIdle
    /\ \/ \E k \in 0..MaxCols : \E cols \in [1..k -> Columns] :
             args = [file |-> ExtractDoc(cols), table_name |-> "T"]
       \/ \E k \in 0..MaxTables : \E attrSeq \in [1..k -> TableAttrs], n \in {"", "T"} :
             args = [file |-> SelectDoc(attrSeq), table_name |-> n]
    /\ ret = Raised("")

XmlCall ==
    /\ pc = "call"
    /\ pc' = "return"
    /\ ret' = xml_to_df(args.file, args.table_name)
    /\ UNCHANGED <<args, mainVars>>

XmlNext == XmlCall

SpecXml == XmlInit /\ [][XmlNext]_vars

(***************************************************************************)
(* cyclist_and_team_data                                                   *)
(***************************************************************************)
HasColumn(df, name) == \E k \in 1..Len(df.columns) : df.columns[k] = name

ColumnAt(df, name) == CHOOSE k \in 1..Len(df.columns) : df.columns[k] = name

\* team_cols: IDteam, then the two name columns when teams_df has them
TeamCols(teams_df) ==
    <<"IDteam">>
    \o (IF HasColumn(teams_df, "gene_sz_shortname") THEN <<"gene_sz_shortname">> ELSE << >>)
    \o (IF HasColumn(teams_df, "gene_sz_name") THEN <<"gene_sz_name">> ELSE << >>)

\* teams_df[team_cols], every label being a column of teams_df
SelectColumns(df, labels) ==
    [columns |-> labels,
     rows |-> [r \in 1..Len(df.rows) |->
                  [c \in 1..Len(labels) |-> df.rows[r][ColumnAt(df, labels[c])]]]]

\* DataFrame.merge matches two keys that are equal, and takes two null keys
\* for equal
KeysMatch(a, b) == a = b

\* left.merge(right, left_on=left_on, right_on=right_on, how='left'): the
\* left rows in order, each once per matching right row (in the order of
\* the right table), or once with nulls when no right row matches.
JoinedRows(row, matches, width) ==
    IF matches = << >> THEN <<row \o [c \in 1..width |-> None]>>
    ELSE [m \in 1..Len(matches) |-> row \o matches[m]]

RECURSIVE MergeRows(_, _, _, _, _)
MergeRows(left, right, lk, rk, i) ==
    IF i > Len(left.rows) THEN << >>
    ELSE LET hit(r) == KeysMatch(left.rows[i][lk], r[rk])
         IN  JoinedRows(left.rows[i], SelectSeq(right.rows, hit), Len(right.columns))
             \o MergeRows(left, right, lk, rk, i + 1)

MergeLeft(left, right, left_on, right_on) ==
    [columns |-> left.columns \o right.columns,
     rows |-> MergeRows(left, right, ColumnAt(left, left_on), ColumnAt(right, right_on), 1)]

\* full_db['age'] = full_db['gene_i_birthdate'].apply(calculate_age)
WithAge(df, today) ==
    [columns |-> Append(df.columns, "age"),
     rows |-> [r \in 1..Len(df.rows) |->
                  Append(df.rows[r],
                         calculate_age(df.rows[r][ColumnAt(df, "gene_i_birthdate")], today))]]

\* the last step: the age column, when there is a birthdate column
AddAge(full_db, today) ==
    IF HasColumn(full_db, "gene_i_birthdate") THEN Returned(WithAge(full_db, today))
    ELSE Returned(full_db)

\* the part of cyclist_and_team_data after the two calls of xml_to_df
JoinFrames(cyclists, teams, today) ==
    IF ~cyclists.ok THEN cyclists
    ELSE IF ~teams.ok THEN teams
    ELSE IF ~HasColumn(teams.df, "IDteam") THEN Raised("KeyError: IDteam")
    ELSE IF ~HasColumn(cyclists.df, "fkIDteam") THEN Raised("KeyError: fkIDteam")
    ELSE AddAge(MergeLeft(cyclists.df, SelectColumns(teams.df, TeamCols(teams.df)),
                          "fkIDteam", "IDteam"),
                today)

cyclist_and_team_data(file, today) ==
    JoinFrames(xml_to_df(file, "DYN_cyclist"), xml_to_df(file, "DYN_team"), today)

(***************************************************************************)
(* The specification of cyclist_and_team_data: a document with a cyclist   *)
(* table and a team table is drawn, and the function is called once.  The  *)
(* labels of a table are distinct, and the two tables share none.          *)
(***************************************************************************)
Keys == {None, <<"1", "0">>, <<"9", "9">>}

TeamNames == {None, <<"A">>, <<"B">>}

BirthCells == <<<<"1", "9", "9", "0", "0", "1", "0", "1">>, None, <<"x">>>>

Column(name, cells) == [attrs |-> [ColumnName |-> name], cells |-> cells]

Table(name, cols) ==
    [attrs |-> [TableName |-> name, NumRows |-> NatStr(MaxLength([c \in 1..Len(cols) |-> cols[c].cells]))],
     cols |-> cols]

CyclistTable(fk, birth) ==
    Table("DYN_cyclist",
          <<Column("IDcyclist", [k \in 1..Len(fk) |-> NatStr(k)]), Column("fkIDteam", fk)>>
          \o (IF birth
              THEN <<Column("gene_i_birthdate", [k \in 1..Len(fk) |-> BirthCells[((k - 1) % 3) + 1]])>>
              ELSE << >>))

\* the shapes of the team table: both columns, IDteam alone, the name
\* alone, no columns
TeamTable(shape, ids, names) ==
    Table("DYN_team",
          (IF shape \in {"both", "ids"} THEN <<Column("IDteam", ids)>> ELSE << >>)
          \o (IF shape \in {"both", "names"} THEN <<Column("gene_sz_name", names)>> ELSE << >>))

TeamShapes == {"both", "ids", "names", "none"}

\* the documents: the two tables, or one of them alone, or a cyclist table
\* without the foreign key, or no readable document
JoinDoc(kind, c, t) ==
    IF kind = "both" THEN XmlFile(<<c, t>>)
    ELSE IF kind = "cyclists" THEN XmlFile(<<c>>)
    ELSE IF kind = "teams" THEN XmlFile(<<t>>)
    ELSE IF kind = "no key" THEN XmlFile(<<Table("DYN_cyclist", <<c.cols[1]>>), t>>)
    ELSE IF kind = "malformed" THEN MalformedFile
    ELSE MissingFile

DocKinds == {"both", "cyclists", "teams", "no key", "malformed", "missing"}

JoinToday == [year |-> 2024, month |-> 6, day |-> 15]

JoinInit ==
    /\ pc = "call"
    /\ mainIdle
    /\ \E kind \in DocKinds, shape \in TeamShapes, birth \in BOOLEAN :
       \E fk \in SeqsUpTo(Keys, MaxRows), ids \in SeqsUpTo(Keys, MaxRows),
          names \in SeqsUpTo(TeamNames, MaxRows) :
          args = [file |-> JoinDoc(kind, CyclistTable(fk, birth), TeamTable(shape, ids, names)),
                  today |-> JoinToday]
    /\ ret = Raised("")

JoinCall ==
    /\ pc = "call"
    /\ pc' = "return"
    /\ ret' = cyclist_and_team_data(args.file, args.today)
    /\ UNCHANGED <<args, mainVars>>

JoinNext == JoinCall

SpecJoin == JoinInit /\ [][JoinNext]_vars

(***************************************************************************)
(* main.  The .cdb files of the directory are named by their stems 1..n.   *)
(* What lies outside the program is drawn afresh for every file: how       *)
(* Exporter.exe ends and what it leaves in the .xml file, whether writing  *)
(* the CSV file succeeds, and whether a file can be deleted.               *)
(***************************************************************************)
ScenarioDoc ==
    XmlFile(<<Table("DYN_cyclist",
                    <<Column("IDcyclist", <<<<"1">>, <<"2">>>>),
                      Column("fkIDteam", <<<<"1", "0">>, <<"9", "9">>>>),
                      Column("gene_i_birthdate", <<BirthCells[1], None>>)>>),
              Table("DYN_team",
                    <<Column("IDteam", <<<<"1", "0">>>>), Column("gene_sz_name", <<<<"A">>>>)>>)>>)

NoTeamDoc == XmlFile(<<ScenarioDoc.tables[1]>>)

NoCyclistDoc == XmlFile(<<ScenarioDoc.tables[2]>>)

\* what Exporter.exe may leave in the output file
ExportedFiles == {ScenarioDoc, NoTeamDoc, NoCyclistDoc, MalformedFile, MissingFile}

\* how subprocess.run(command, check=True, ...) ends: normally (exit status
\* 0), or with CalledProcessError (another exit status), FileNotFoundError
\* (no Exporter.exe) or PermissionError (Exporter.exe cannot be executed)
RunOutcomes == {"exit 0", "CalledProcessError", "FileNotFoundError", "PermissionError"}

\* the runs of the exporter: its outcome and the output file it leaves
ExporterRuns ==
    {r \in [outcome : RunOutcomes, written : ExportedFiles] :
        r.outcome \in {"FileNotFoundError", "PermissionError"} => r.written = MissingFile}

\* export_to_xml: True, False, or the exception it does not catch
export_to_xml(run) ==
    IF run.outcome = "exit 0" THEN "True"
    ELSE IF run.outcome \in {"CalledProcessError", "FileNotFoundError"} THEN "False"
    ELSE "raise"

\* how df.to_csv(csv_path) ends: written, failed before the file was
\* opened, or failed after the file was created
CsvOutcomes == {"written", "not opened", "partial"}

\* the directory after the exporter ran for stem f
AfterExport(f, run) == IF run.written.kind = "missing" THEN xml_files ELSE xml_files \cup {f}

\* the body of the try block up to the first exception, df being what
\* cyclist_and_team_data gave: df.to_csv, then xml_path.unlink
TryBlock(df, csv, unlinked) ==
    IF ~df.ok THEN [raised |-> TRUE, error |-> df.err, csv_exists |-> FALSE]
    ELSE IF csv # "written"
    THEN [raised |-> TRUE, error |-> "to_csv: OSError", csv_exists |-> csv = "partial"]
    ELSE IF ~unlinked THEN [raised |-> TRUE, error |-> "unlink: OSError", csv_exists |-> TRUE]
    ELSE [raised |-> FALSE, error |-> "", csv_exists |-> TRUE]

\* the outcomes of the try block for the file the exporter left
TryOutcomes(run) ==
    {TryBlock(df, csv, unlinked) :
        df \in {cyclist_and_team_data(run.written, JoinToday)},
        csv \in CsvOutcomes, unlinked \in BOOLEAN}

\* what happened around the program in an iteration (kept in args)
Seen(run, error) == [exporter |-> run.outcome, left |-> run.written.kind, error |-> error]

MainInit ==
    /\ pc = "start"
    /\ cdb_files \in {[k \in 1..n |-> k] : n \in 0..MaxFiles}
    /\ idx = 0
    /\ xml_files = {}
    /\ csv_files = {}
    /\ attempted = << >>
    /\ status = << >>
    /\ args = Seen([outcome |-> "", written |-> MissingFile], "")
    /\ ret = Raised("")

\* if not cdb_files: return
NoFiles ==
    /\ pc = "start"
    /\ cdb_files = << >>
    /\ pc' = "returned"
    /\ UNCHANGED <<cdb_files, idx, xml_files, csv_files, attempted, status, args, ret>>

FoundFiles ==
    /\ pc = "start"
    /\ cdb_files # << >>
    /\ pc' = "loop"
    /\ idx' = 1
    /\ UNCHANGED <<cdb_files, xml_files, csv_files, attempted, status, args, ret>>

InLoop == pc = "loop" /\ idx <= Len(cdb_files)

\* an iteration whose export_to_xml returns False
ExportFailed ==
    /\ InLoop
    /\ \E run \in ExporterRuns :
          /\ export_to_xml(run) = "False"
          /\ xml_files' = AfterExport(cdb_files[idx], run)
          /\ args' = Seen(run, "")
    /\ attempted' = Append(attempted, cdb_files[idx])
    /\ status' = Append(status, "Failed to export to XML")
    /\ idx' = idx + 1
    /\ UNCHANGED <<pc, cdb_files, csv_files, ret>>

\* an iteration whose export_to_xml raises: main ends with the exception
ExportRaised ==
    /\ InLoop
    /\ \E run \in ExporterRuns :
          /\ export_to_xml(run) = "raise"
          /\ xml_files' = AfterExport(cdb_files[idx], run)
          /\ args' = Seen(run, run.outcome)
    /\ attempted' = Append(attempted, cdb_files[idx])
    /\ pc' = "aborted"
    /\ UNCHANGED <<cdb_files, idx, csv_files, status, ret>>

\* an iteration that runs the try block to its end
Converted ==
    /\ InLoop
    /\ \E run \in ExporterRuns :
          /\ export_to_xml(run) = "True"
          /\ \E try \in TryOutcomes(run) : ~try.raised
          /\ xml_files' = AfterExport(cdb_files[idx], run) \ {cdb_files[idx]}
          /\ csv_files' = csv_files \cup {cdb_files[idx]}
          /\ args' = Seen(run, "")
    /\ attempted' = Append(attempted, cdb_files[idx])
    /\ status' = Append(status, "Converted")
    /\ idx' = idx + 1
    /\ UNCHANGED <<pc, cdb_files, ret>>

\* an iteration whose try block raises, and whose handler deletes the XML
\* file if it exists
ConvertFailed ==
    /\ InLoop
    /\ \E run \in ExporterRuns :
          /\ export_to_xml(run) = "True"
          /\ \E try \in TryOutcomes(run) :
                /\ try.raised
                /\ csv_files' = IF try.csv_exists THEN csv_files \cup {cdb_files[idx]} ELSE csv_files
                /\ args' = Seen(run, try.error)
          /\ xml_files' = AfterExport(cdb_files[idx], run) \ {cdb_files[idx]}
    /\ attempted' = Append(attempted, cdb_files[idx])
    /\ status' = Append(status, "Failed to convert")
    /\ idx' = idx + 1
    /\ UNCHANGED <<pc, cdb_files, ret>>

\* an iteration whose try block raises, and whose handler finds the XML
\* file and fails to delete it: main ends with the exception
CleanupRaised ==
    /\ InLoop
    /\ \E run \in ExporterRuns :
          /\ export_to_xml(run) = "True"
          /\ \E try \in TryOutcomes(run) :
                /\ try.raised
                /\ csv_files' = IF try.csv_exists THEN csv_files \cup {cdb_files[idx]} ELSE csv_files
                /\ args' = Seen(run, try.error)
          /\ cdb_files[idx] \in AfterExport(cdb_files[idx], run)
          /\ xml_files' = AfterExport(cdb_files[idx], run)
    /\ attempted' = Append(attempted, cdb_files[idx])
    /\ status' = Append(status, "Failed to convert")
    /\ pc' = "aborted"
    /\ UNCHANGED <<cdb_files, idx, ret>>

\* print("Processing complete!")
Complete ==
    /\ pc = "loop"
    /\ idx > Len(cdb_files)
    /\ pc' = "complete"
    /\ UNCHANGED <<cdb_files, idx, xml_files, csv_files, attempted, status, args, ret>>

Next ==
    \/ NoFiles
    \/ FoundFiles
    \/ ExportFailed
    \/ ExportRaised
    \/ Converted
    \/ ConvertFailed
    \/ CleanupRaised
    \/ Complete

Spec == MainInit /\ [][Next]_vars

(***************************************************************************)
(* Claims about calculate_age                                              *)
(***************************************************************************)
\* The date an integer spells when read as YYYYMMDD
YmdYear(n) == n \div 10000

YmdMonth(n) == (n \div 100) % 100

YmdDay(n) == n % 100

\* b is the text of an integer of exactly 8 digits that is a calendar date
IsYYYYMMDD(b) ==
    /\ b # None
    /\ PyInt(b).ok
    /\ LET n == PyInt(b).val
       IN  /\ n >= 10000000
           /\ n <= 99999999
           /\ ValidDate(YmdYear(n), YmdMonth(n), YmdDay(n))

\* the day after a calendar date
NextDay(y, m, d) ==
    IF d < DaysInMonth(y, m) THEN <<y, m, d + 1>>
    ELSE IF m < 12 THEN <<y, m + 1, 1>> ELSE <<y + 1, 1, 1>>

\* C8: calculate_age returns an integer only for a valid 8-digit YYYYMMDD
\* date; for a null input, a text that is no integer, or an integer that is
\* no such date (fewer than 8 digits, month 13, day 32) it returns null.
C8_NullUnlessValidDate ==
    (pc = "return" /\ ~IsYYYYMMDD(args.birthdate)) => ret.isnull

\* C9: for a valid birthdate, the age is current_year - birth_year, less one
\* exactly when the current (month, day) precedes the birth (month, day); a
\* birthdate exactly N years before today gives N, and the day after that
\* birthdate gives N - 1.
C9_AgeFormula ==
    (pc = "return" /\ IsYYYYMMDD(args.birthdate)) =>
        LET n == PyInt(args.birthdate).val
            t == args.today
            by == YmdYear(n)
            bm == YmdMonth(n)
            bd == YmdDay(n)
        IN  /\ ~ret.isnull
            /\ ret.value = t.year - by
                           - (IF t.month < bm \/ (t.month = bm /\ t.day < bd) THEN 1 ELSE 0)
            /\ \A N \in (t.year - by - 1)..(t.year - by + 1) :
                /\ (<<by, bm, bd>> = <<t.year - N, t.month, t.day>>) => ret.value = N
                /\ (/\ ValidDate(t.year - N, t.month, t.day)
                    /\ <<by, bm, bd>> = NextDay(t.year - N, t.month, t.day))
                   => ret.value = N - 1

\* a birthday that falls tomorrow (29 February, seen from 28 February) has
\* been computed as one year less than the difference of the years
C9_Witness ==
    /\ pc = "return"
    /\ IsYYYYMMDD(args.birthdate)
    /\ YmdMonth(PyInt(args.birthdate).val) = 2
    /\ YmdDay(PyInt(args.birthdate).val) = 29
    /\ args.today.month = 2
    /\ args.today.day = 28
    /\ ret = AgeInt(args.today.year - YmdYear(PyInt(args.birthdate).val) - 1)

(***************************************************************************)
(* Claims about xml_to_df                                                  *)
(***************************************************************************)
\* the positions of the Column children that carry a non-empty ColumnName
NamedColumns(table) ==
    {k \in 1..Len(table.cols) :
        "ColumnName" \in DOMAIN table.cols[k].attrs /\ table.cols[k].attrs.ColumnName # ""}

\* the j-th of them, in document order
NthNamed(table, j) ==
    CHOOSE k \in NamedColumns(table) : Cardinality({x \in NamedColumns(table) : x <= k}) = j

MaxCellCount(table) ==
    IF NamedColumns(table) = {} THEN 0
    ELSE LET counts == {Len(table.cols[k].cells) : k \in NamedColumns(table)}
         IN  CHOOSE n \in counts : \A z \in counts : z <= n

\* a call that extracted the only table of its document
ExtractedOnlyTable ==
    /\ pc = "return"
    /\ ret.ok
    /\ args.file.kind = "xml"
    /\ Len(args.file.tables) = 1

\* C4: when the selected table has at least one retained column, every row
\* has exactly as many values as there are retained columns, and there are
\* as many rows as the longest column has cells (shorter columns are padded).
C4_RowsPadded ==
    (ExtractedOnlyTable /\ NamedColumns(args.file.tables[1]) # {}) =>
        LET t == args.file.tables[1]
        IN  /\ Len(ret.df.columns) = Cardinality(NamedColumns(t))
            /\ Len(ret.df.rows) = MaxCellCount(t)
            /\ \A i \in 1..Len(ret.df.rows) : Len(ret.df.rows[i]) = Cardinality(NamedColumns(t))

\* two retained columns with different numbers of cells were extracted
C4_Witness ==
    /\ ExtractedOnlyTable
    /\ \E a, b \in NamedColumns(args.file.tables[1]) :
          /\ Len(args.file.tables[1].cols[a].cells) < Len(args.file.tables[1].cols[b].cells)
          /\ Len(ret.df.rows) = Len(args.file.tables[1].cols[b].cells)
          /\ Len(ret.df.rows[Len(ret.df.rows)]) = 2

\* C10: the columns of the result are the Column children with a non-empty
\* ColumnName, in document order; row i, column c holds the text of the i-th
\* Cell of c, or null when that cell has no text or is not there; a table
\* without retained columns gives zero columns and zero rows, not an error.
C10_Transposed ==
    /\ (pc = "return" /\ args.file.kind = "xml" /\ args.table_name # ""
           /\ \E k \in 1..Len(args.file.tables) :
                 /\ "TableName" \in DOMAIN args.file.tables[k].attrs
                 /\ args.file.tables[k].attrs.TableName = args.table_name) => ret.ok
    /\ ExtractedOnlyTable =>
        LET t == args.file.tables[1]
            n == Cardinality(NamedColumns(t))
        IN  /\ ret.df.columns = [j \in 1..n |-> t.cols[NthNamed(t, j)].attrs.ColumnName]
            /\ Len(ret.df.rows) = MaxCellCount(t)
            /\ \A i \in 1..Len(ret.df.rows) :
                  ret.df.rows[i] =
                      [j \in 1..n |->
                          LET cells == t.cols[NthNamed(t, j)].cells
                          IN  IF i <= Len(cells) THEN cells[i] ELSE None]
            /\ (n = 0 => ret.df = EmptyDataFrame)

\* a column without a usable name was skipped, and the column kept has a
\* text in one row and null in another
C10_Witness ==
    /\ ExtractedOnlyTable
    /\ Len(args.file.tables[1].cols) = 2
    /\ Len(ret.df.columns) = 1
    /\ \E i, j \in 1..Len(ret.df.rows) : ret.df.rows[i] = <<None>> /\ ret.df.rows[j] = <<<<"u">>>>

\* the NumRows attribute of table k parses as an integer greater than zero
Qualifies(tables, k) ==
    /\ "NumRows" \in DOMAIN tables[k].attrs
    /\ PyInt(tables[k].attrs.NumRows).ok
    /\ PyInt(tables[k].attrs.NumRows).val > 0

\* C6: without a table name, the first table in document order whose NumRows
\* parses as an integer greater than zero is selected, the others (NumRows
\* absent, empty, zero, negative, not an integer) are passed over, and the
\* call fails with the 'no table with data' error exactly when none qualifies.
C6_FirstTableWithData ==
    (pc = "return" /\ args.table_name = "" /\ args.file.kind = "xml") =>
        LET tables == args.file.tables
            good == {k \in 1..Len(tables) : Qualifies(tables, k)}
        IN  IF good = {} THEN ~ret.ok /\ ret.err = "ValueError: no table with data"
            ELSE /\ ret.ok
                 /\ ret.df.rows = <<<<NatStr(CHOOSE k \in good : \A z \in good : k <= z)>>>>

(***************************************************************************)
(* Claims about cyclist_and_team_data                                      *)
(***************************************************************************)
\* the named table of the document, when there is one
NamedTable(file, name) ==
    file.tables[CHOOSE k \in 1..Len(file.tables) : file.tables[k].attrs.TableName = name]

HasTable(file, name) ==
    file.kind = "xml" /\ \E k \in 1..Len(file.tables) : file.tables[k].attrs.TableName = name

\* the value of the named column in row i of a table, null past its cells
CellOf(table, name, i) ==
    LET col == table.cols[CHOOSE k \in 1..Len(table.cols) : table.cols[k].attrs.ColumnName = name]
    IN  IF i <= Len(col.cells) THEN col.cells[i] ELSE None

HasNamedColumn(table, name) ==
    \E k \in 1..Len(table.cols) : table.cols[k].attrs.ColumnName = name

\* a call on a document that has a cyclist table with the foreign key, and
\* a team table
JoinedDocument ==
    /\ pc = "return"
    /\ HasTable(args.file, "DYN_cyclist")
    /\ HasTable(args.file, "DYN_team")
    /\ HasNamedColumn(NamedTable(args.file, "DYN_cyclist"), "fkIDteam")

\* C3: cyclist_and_team_data returns exactly one row per DYN_cyclist row, in
\* cyclist order, whatever the DYN_team table holds: no rows, no columns, no
\* matching IDteam, or several rows with the same IDteam.
C3_OneRowPerCyclist ==
    JoinedDocument =>
        LET c == NamedTable(args.file, "DYN_cyclist")
        IN  /\ ret.ok
            /\ Len(ret.df.rows) = MaxCellCount(c)
            /\ \A i \in 1..Len(ret.df.rows) :
                  /\ ret.df.rows[i][1] = CellOf(c, "IDcyclist", i)
                  /\ ret.df.rows[i][2] = CellOf(c, "fkIDteam", i)

\* C7: an output row carries a non-null team value only if its fkIDteam is
\* non-null and equals the IDteam of some team row; a null fkIDteam is never
\* joined to a team row whose IDteam is null.
C7_NullKeyNeverMatches ==
    (JoinedDocument /\ ret.ok) =>
        LET t == NamedTable(args.file, "DYN_team")
            fkAt == ColumnAt(ret.df, "fkIDteam")
            teamAt == {k \in 1..Len(ret.df.columns) : ret.df.columns[k] \in {"IDteam", "gene_sz_name"}}
        IN  \A i \in 1..Len(ret.df.rows) :
              (\E k \in teamAt : ret.df.rows[i][k] # None) =>
                  /\ ret.df.rows[i][fkAt] # None
                  /\ \E j \in 1..MaxCellCount(t) : CellOf(t, "IDteam", j) = ret.df.rows[i][fkAt]

(***************************************************************************)
(* Claims about main                                                       *)
(***************************************************************************)
\* the stems whose iteration has ended
Processed == {cdb_files[k] : k \in 1..(IF idx = 0 THEN 0 ELSE idx - 1)}

\* C1: once the processing of an input file has finished, its intermediate
\* XML file does not exist, whatever the outcome for that file, also when
\* the export exited non-zero and left an XML file behind.
C1_NoXmlAfterProcessing == \A f \in Processed : f \notin xml_files

\* C2: no failure while processing a file aborts the batch: when main ends
\* having found files, it has reached 'Processing complete!' and every file
\* of the scan has been attempted exactly once, in scan order.
C2_BatchNeverAborts ==
    /\ pc # "aborted"
    /\ pc = "complete" => attempted = cdb_files
    /\ \A k \in 1..Len(attempted) : attempted[k] = cdb_files[k]

\* C5: when the conversion of a file fails after a successful export, no CSV
\* file and no XML file of that input remain, and the loop goes on to the
\* next file.
C5_FailedConversionLeavesNothing ==
    \A k \in 1..Len(status) :
        status[k] = "Failed to convert" =>
            /\ cdb_files[k] \notin csv_files
            /\ cdb_files[k] \notin xml_files
            /\ pc # "aborted"

====
